---------------------------- MODULE Spec2Model ----------------------------
(***************************************************************************)
(* Model of Pytorch/Projects/FGSM/Anti_FGSM.py: the FGSM adversarial       *)
(* example generator (generate_image_adversary), the accuracy evaluator    *)
(* (accuracy) and the training loop (training_loop), with the module-level *)
(* state they share: the global classifier `model`, its parameter          *)
(* gradients, the two accuracy logs and the validation loader data_val.    *)
(*                                                                         *)
(* Numbers.  Pixel values and epsilon are counted in hundredths, so the    *)
(* image range [0, 1] is 0..One.  Tensor arithmetic is exact on that grid  *)
(* (float32 rounding is not modelled).  Accuracy values are exact          *)
(* fractions <<p, q>>; q = 0 stands for the non-finite results of a tensor *)
(* division by zero: <<1, 0>> is inf and <<0, 0>> is nan.                  *)
(*                                                                         *)
(* Framework.  An image is one pixel.  The classifier is a threshold on    *)
(* that pixel, its parameters being the threshold.  Autograd's input       *)
(* gradient, torch.randperm's permutation, the batches a shuffling         *)
(* DataLoader yields and the weights Adam writes are nondeterministic      *)
(* choices: the model fixes what the repository's code does with them.     *)
(***************************************************************************)
EXTENDS Integers, Sequences, FiniteSets

\* ------------------------------------------------------------------ bounds
MaxLen == 2          \* examples per batch, generator calls checked on their own
MaxBatchLen == 2     \* examples per batch inside accuracy and training_loop
MaxBatches == 2      \* batches per dataset
MaxEpoch == 2        \* n_epoch
MaxCalls == 2        \* top-level calls made by the script

\* ------------------------------------------------------- program constants
One == 100           \* upper clamp bound 1 of torch.clamp(tmp, 0, 1), in hundredths
eps == 35            \* module-level eps = 0.35, accuracy's default
DefaultEps == 3      \* generate_image_adversary's default eps = 0.03

Nets == {"model", "other"}     \* the global `model`, and any other classifier
Labels == {0, 1}
Pixels == {0, One \div 2, One}
GradVals == {-2, 0, 3}         \* input-gradient values: negative, zero, positive
EpsVals == {0, DefaultEps, eps, 2 * One}
Thetas == {25, 75}             \* parameter values of the classifier
val_batches == MaxBatches      \* number of batches the global data_val yields

VARIABLES
    pc,             \* "main" | "train" | "acc" | "error" | "gen" | "returned"
    calls,          \* top-level calls started so far
    params,         \* [Nets -> Thetas]: each classifier's parameter values
    pgrad,          \* [Nets -> [gen, train]]: backward passes accumulated in .grad
    train_log,      \* Acc_log_per_epoch.txt: the number of lines appended
    adv_train_log,  \* Acc_log_per_epoch_adv.txt: the number of lines appended
    tl,             \* frame of training_loop
    ac,             \* frame of accuracy
    gen             \* last call of generate_image_adversary checked on its own

vars == <<pc, calls, params, pgrad, train_log, adv_train_log, tl, ac, gen>>

\* ----------------------------------------------------------------- helpers
RECURSIVE GCD(_, _)
GCD(a, b) == IF b = 0 THEN a ELSE GCD(b, a % b)

Norm(p, q) ==
    IF q = 0 THEN (IF p > 0 THEN <<1, 0>> ELSE <<0, 0>>)
    ELSE LET g == GCD(p, q) IN <<p \div g, q \div g>>

RatAdd(a, b) == Norm(a[1] * b[2] + b[1] * a[2], a[2] * b[2])
RatMul(a, k) == Norm(a[1] * k, a[2])
\* tensor / n: a float division, so n = 0 gives inf (or nan for 0 / 0)
TensorDiv(a, n) == Norm(a[1], a[2] * n)
IsFinite(a) == a[2] # 0

Perms(n) == {p \in [1..n -> 1..n] : \A i, j \in 1..n : p[i] = p[j] => i = j}
SeqsOf(S, n) == [1..n -> S]

\* ---------------------------------------------------------- the classifier
\* argmax of the classifier's scores for one image
Predict(theta, x) == IF x >= theta THEN 1 ELSE 0

\* correct_prediction = torch.argmax(prediction, 1) == labels, summed
Correct(theta, images, labels) ==
    Cardinality({i \in 1..Len(images) : Predict(theta, images[i]) = labels[i]})

\* loss.backward(): one more backward pass accumulated in net's .grad
\* (the count saturates: 2 stands for two passes or more)
backward(G, net, kind) ==
    [G EXCEPT ![net] = [@ EXCEPT ![kind] = IF @ < 2 THEN @ + 1 ELSE @]]

zero_grad_skipped(G, net) == G

\* optimizer.zero_grad()
zero_grad(G, net) == [G EXCEPT ![net] = [gen |-> 0, train |-> 0]]

\* ------------------------------------------------ generate_image_adversary
ReorderLabel_unshuffled(label, rand_idx) == label

\* tmp_l[i] = label[rand_idx[i]]
ReorderLabel(label, rand_idx) == [i \in 1..Len(label) |-> label[rand_idx[i]]]

\* tmp[i] = img[rand_idx[i]]
ReorderImg(img, rand_idx) == [i \in 1..Len(img) |-> img[rand_idx[i]]]

Sign_raw(g) == g

\* .sign()
Sign(g) == IF g > 0 THEN 1 ELSE IF g < 0 THEN -1 ELSE 0

Perturb_without_eps(x, e, g) == x + One * Sign(g)

\* tmp + eps * tmp.grad.data.sign(), one element
Perturb(x, e, g) == x + e * Sign(g)

Clamp_upper_only(v) == IF v > One THEN One ELSE v

\* torch.clamp(tmp, 0, 1), one element
Clamp(v) == IF v < 0 THEN 0 ELSE IF v > One THEN One ELSE v

\* The batch the call returns, for the permutation rand_idx torch.randperm drew
\* and the gradient grad of the loss with respect to the reordered images.
generate_image_adversary(img, label, e, rand_idx, grad) ==
    LET tmp0 == ReorderImg(img, rand_idx)
    IN  [tmp   |-> [i \in 1..Len(img) |-> Clamp(Perturb(tmp0[i], e, grad[i]))],
         tmp_l |-> ReorderLabel(label, rand_idx)]

generator_effect_updating(P, G, net) ==
    [params |-> [P EXCEPT ![net] = CHOOSE t \in Thetas : t # P[net]],
     pgrad  |-> backward(G, net, "gen")]

\* What the call leaves in the classifier: pred = model(tmp), loss.backward()
\* accumulates into the parameters' .grad, and no weight is written.
generator_effect(P, G, net) ==
    [params |-> P, pgrad |-> backward(G, net, "gen")]

\* every batch a data loader can yield, up to maxlen examples
Batches(maxlen) ==
    UNION {{[img |-> img, label |-> label] :
               img \in SeqsOf(Pixels, len), label \in SeqsOf(Labels, len)} : len \in 1..maxlen}

\* every batch generate_image_adversary can return for epsilon e
AdvBatches(e, maxlen) ==
    UNION {{generate_image_adversary(b.img, b.label, e, rand_idx, grad) :
               rand_idx \in Perms(Len(b.img)), grad \in SeqsOf(GradVals, Len(b.img))} :
           b \in Batches(maxlen)}

\* <<examples predicted right, examples>> of every batch the clean loop can see,
\* for each value of the classifier's parameters
CleanScores ==
    [t \in Thetas |-> {<<Correct(t, b.img, b.label), Len(b.img)>> : b \in Batches(MaxBatchLen)}]

\* the same for the batches the attack loop evaluates; every call of accuracy
\* in the script leaves eps at its default, the module-level eps
AttackScores ==
    [t \in Thetas |->
        {<<Correct(t, b.tmp, b.tmp_l), Len(b.tmp)>> : b \in AdvBatches(eps, MaxBatchLen)}]

\* --------------------------------------------------------------- the state
\* log.write(str(tot_acc.item()) + "\n"): one more line.  The logs are written
\* and never read; the text of the line is the value accuracy returned, which
\* stays in ac.result
write(log, value) == log + 1

NoTl == [status |-> "none", n_epoch |-> 0, network |-> "model", adv |-> FALSE,
         nbatches |-> 0, i |-> 0, j |-> 0, steps |-> 0,
         step_grad |-> [gen |-> 0, train |-> 0], log_start |-> 0, other_start |-> 0]

NoAc == [status |-> "none", model |-> "model", attack |-> FALSE, eps |-> 0,
         nbatches |-> 0, k |-> 0, accuracy |-> <<0, 1>>, is_tensor |-> FALSE,
         n |-> 0, caller |-> "main", result |-> <<0, 1>>]

NoGen == [called |-> FALSE, img |-> <<>>, label |-> <<>>, eps |-> 0,
          rand_idx |-> <<>>, grad |-> <<>>, tmp |-> <<>>, tmp_l |-> <<>>]

Init ==
    /\ pc = "main"
    /\ calls = 0
    /\ params = [n \in Nets |-> 25]
    /\ pgrad = [n \in Nets |-> [gen |-> 0, train |-> 0]]
    /\ train_log = 0
    /\ adv_train_log = 0
    /\ tl = NoTl
    /\ ac = NoAc
    /\ gen = NoGen

\* ------------------------------------- generate_image_adversary on its own
InitGen ==
    /\ pc = "gen"
    /\ calls = 0
    /\ params = [n \in Nets |-> 25]
    /\ pgrad = [n \in Nets |-> [gen |-> 0, train |-> 0]]
    /\ train_log = 0
    /\ adv_train_log = 0
    /\ tl = NoTl
    /\ ac = NoAc
    /\ gen = NoGen

CallGenerate ==
    /\ pc = "gen"
    /\ \E len \in 1..MaxLen, e \in EpsVals :
       \E img \in SeqsOf(Pixels, len), label \in SeqsOf(Labels, len),
          rand_idx \in Perms(len), grad \in SeqsOf(GradVals, len) :
          LET r == generate_image_adversary(img, label, e, rand_idx, grad)
              c == generator_effect(params, pgrad, "model")
          IN  /\ gen' = [called |-> TRUE, img |-> img, label |-> label, eps |-> e,
                         rand_idx |-> rand_idx, grad |-> grad, tmp |-> r.tmp, tmp_l |-> r.tmp_l]
              /\ params' = c.params
              /\ pgrad' = c.pgrad
    /\ pc' = "returned"
    /\ UNCHANGED <<calls, train_log, adv_train_log, tl, ac>>

NextGen == CallGenerate

SpecGen == InitGen /\ [][NextGen]_vars

\* ------------------------------------------------------------ training_loop
\* the log a call writes: train_log when adv == False, adv_train_log otherwise
LogOf(adv) == IF adv THEN adv_train_log ELSE train_log

EpochsLeft_inclusive(t) == t.i <= t.n_epoch

\* for i in range(0, n_epoch)
EpochsLeft(t) == t.i < t.n_epoch

\* the classifier the per-epoch evaluation is given: accuracy(model, data_val, ...)
EvaluatedNet(t) == "model"

\* the script's calls of training_loop(n_epoch, network, learning_rate, loss_fn, data_t, adv)
CallTraining ==
    /\ pc = "main"
    /\ calls < MaxCalls
    /\ \E E \in 0..MaxEpoch, net \in Nets, adv \in BOOLEAN, B \in 0..MaxBatches :
          tl' = [status |-> "running", n_epoch |-> E, network |-> net, adv |-> adv,
                 nbatches |-> B, i |-> 0, j |-> 0, steps |-> 0,
                 step_grad |-> [gen |-> 0, train |-> 0],
                 log_start |-> LogOf(adv), other_start |-> LogOf(~adv)]
    /\ ac' = NoAc
    /\ pc' = "train"
    /\ calls' = calls + 1
    /\ UNCHANGED <<params, pgrad, train_log, adv_train_log, gen>>

\* forward, optimizer.zero_grad(), loss_train.backward(), optimizer.step() on one
\* batch, from the classifier state (P, G); Adam writes the weights new
StepOn(P, G, new) ==
    LET net == tl.network
        G2 == backward(zero_grad(G, net), net, "train")
    IN  /\ tl' = [tl EXCEPT !.j = @ + 1, !.steps = @ + 1, !.step_grad = G2[net]]
        /\ params' = [P EXCEPT ![net] = new]
        /\ pgrad' = G2

\* one iteration of the batch loop when adv == False
TrainBatchClean ==
    /\ pc = "train"
    /\ ~tl.adv
    /\ EpochsLeft(tl)
    /\ tl.j < tl.nbatches
    /\ \E new \in Thetas : StepOn(params, pgrad, new)
    /\ UNCHANGED <<pc, calls, train_log, adv_train_log, ac, gen>>

\* one iteration of the batch loop when adv == True: the batch the generator
\* returns feeds the forward pass, whose loss Adam turns into the weights new
TrainBatchAdv ==
    /\ pc = "train"
    /\ tl.adv
    /\ EpochsLeft(tl)
    /\ tl.j < tl.nbatches
    /\ \E new \in Thetas :
          LET c == generator_effect(params, pgrad, tl.network)
          IN  StepOn(c.params, c.pgrad, new)
    /\ UNCHANGED <<pc, calls, train_log, adv_train_log, ac, gen>>

\* after the batch loop: tot_acc = accuracy(model, data_val, 10, attack=adv)
EpochEval ==
    /\ pc = "train"
    /\ EpochsLeft(tl)
    /\ tl.j = tl.nbatches
    /\ ac' = [NoAc EXCEPT !.status = "running", !.model = EvaluatedNet(tl),
                          !.attack = tl.adv, !.eps = eps,
                          !.nbatches = val_batches, !.caller = "train"]
    /\ pc' = "acc"
    /\ UNCHANGED <<calls, params, pgrad, train_log, adv_train_log, tl, gen>>

\* the epoch loop is exhausted: training_loop returns
TrainReturn ==
    /\ pc = "train"
    /\ ~EpochsLeft(tl)
    /\ tl' = [tl EXCEPT !.status = "returned"]
    /\ pc' = "main"
    /\ UNCHANGED <<calls, params, pgrad, train_log, adv_train_log, ac, gen>>

\* ----------------------------------------------------------------- accuracy
\* the script's calls of accuracy(model, data, classes, attack, eps)
CallAccuracy ==
    /\ pc = "main"
    /\ calls < MaxCalls
    /\ \E net \in Nets, B \in 0..MaxBatches, attack \in BOOLEAN :
          ac' = [NoAc EXCEPT !.status = "running", !.model = net, !.attack = attack,
                             !.eps = eps, !.nbatches = B, !.caller = "main"]
    /\ tl' = NoTl
    /\ pc' = "acc"
    /\ calls' = calls + 1
    /\ UNCHANGED <<params, pgrad, train_log, adv_train_log, gen>>

\* accuracy += correct_prediction.float().mean(), for a batch with c of len correct
Accumulate(a, c, len) ==
    [a EXCEPT !.k = @ + 1, !.accuracy = RatAdd(@, Norm(c, len)), !.is_tensor = TRUE]

\* one iteration of the loop of the attack == False branch
AccBatchClean ==
    /\ pc = "acc"
    /\ ~ac.attack
    /\ ac.k < ac.nbatches
    /\ \E s \in CleanScores[params[ac.model]] :
          ac' = [Accumulate(ac, s[1], s[2]) EXCEPT !.n = @ + 1]
    /\ UNCHANGED <<pc, calls, params, pgrad, train_log, adv_train_log, tl, gen>>

\* one iteration of the loop of the attack == True branch
AccBatchAttack ==
    /\ pc = "acc"
    /\ ac.attack
    /\ ac.k < ac.nbatches
    /\ LET c == generator_effect(params, pgrad, ac.model)
       IN  /\ \E s \in AttackScores[c.params[ac.model]] :
                 ac' = Accumulate(ac, s[1], s[2])
           /\ params' = c.params
           /\ pgrad' = c.pgrad
    /\ UNCHANGED <<pc, calls, train_log, adv_train_log, tl, gen>>

\* (accuracy / n) * 100
Quotient(a) == RatMul(TensorDiv(a.accuracy, a.n), 100)

\* accuracy and n are both the int 0: Python's 0 / 0
RaisesZeroDivision(a) == ~a.is_tensor /\ a.n = 0

\* return (accuracy / n) * 100 raises ZeroDivisionError, which nothing catches
AccRaise ==
    /\ pc = "acc"
    /\ ac.k = ac.nbatches
    /\ RaisesZeroDivision(ac)
    /\ ac' = [ac EXCEPT !.status = "raised"]
    /\ pc' = "error"
    /\ UNCHANGED <<calls, params, pgrad, train_log, adv_train_log, tl, gen>>

\* return (accuracy / n) * 100, to the script
AccReturnMain ==
    /\ pc = "acc"
    /\ ac.k = ac.nbatches
    /\ ~RaisesZeroDivision(ac)
    /\ ac.caller = "main"
    /\ ac' = [ac EXCEPT !.status = "returned", !.result = Quotient(ac)]
    /\ pc' = "main"
    /\ UNCHANGED <<calls, params, pgrad, train_log, adv_train_log, tl, gen>>

\* return (accuracy / n) * 100, to training_loop, which writes str(tot_acc.item())
\* and a newline to its log and goes on to the next epoch
AccReturnTrain ==
    /\ pc = "acc"
    /\ ac.k = ac.nbatches
    /\ ~RaisesZeroDivision(ac)
    /\ ac.caller = "train"
    /\ ac' = [ac EXCEPT !.status = "returned", !.result = Quotient(ac)]
    /\ IF tl.adv
       THEN adv_train_log' = write(adv_train_log, Quotient(ac)) /\ UNCHANGED train_log
       ELSE train_log' = write(train_log, Quotient(ac)) /\ UNCHANGED adv_train_log
    /\ tl' = [tl EXCEPT !.i = @ + 1, !.j = 0]
    /\ pc' = "train"
    /\ UNCHANGED <<calls, params, pgrad, gen>>

Next ==
    \/ CallTraining
    \/ TrainBatchClean
    \/ TrainBatchAdv
    \/ EpochEval
    \/ TrainReturn
    \/ CallAccuracy
    \/ AccBatchClean
    \/ AccBatchAttack
    \/ AccRaise
    \/ AccReturnMain
    \/ AccReturnTrain

Spec == Init /\ [][Next]_vars

\* ================================================================== claims
Abs(v) == IF v < 0 THEN -v ELSE v
Range(f) == {f[i] : i \in DOMAIN f}

\* the accuracy the claims speak of: 100 times the mean, over the batches the
\* loop went through, of each batch's fraction of right predictions
MeanPercent(a) == Norm(100 * a.accuracy[1], a.accuracy[2] * a.k)

\* ---- generate_image_adversary, under SpecGen

\* C2: the call reorders images and labels by one permutation of the batch
\* indices: each returned label is the input label at rand_idx[i], and each
\* returned image is the clamped perturbation of the input image at rand_idx[i].
C2_SamePermutation ==
    gen.called =>
        /\ Len(gen.tmp) = Len(gen.img) /\ Len(gen.tmp_l) = Len(gen.label)
        /\ Range(gen.rand_idx) = 1..Len(gen.img)
        /\ \A i \in 1..Len(gen.img) :
              LET src == gen.rand_idx[i]
                  s == IF gen.grad[i] > 0 THEN 1 ELSE IF gen.grad[i] < 0 THEN -1 ELSE 0
                  v == gen.img[src] + gen.eps * s
              IN  /\ gen.tmp_l[i] = gen.label[src]
                  /\ gen.tmp[i] = (IF v < 0 THEN 0 ELSE IF v > One THEN One ELSE v)

\* a batch of two different examples, returned in swapped order
C2_Witness ==
    /\ gen.called
    /\ Len(gen.img) = 2
    /\ gen.rand_idx = <<2, 1>>
    /\ gen.label[1] # gen.label[2]
    /\ gen.img[1] # gen.img[2]
    /\ gen.tmp_l = <<gen.label[2], gen.label[1]>>

\* C3: for every epsilon >= 0 and every gradient, each returned pixel is in [0, 1].
C3_Clamped ==
    gen.called => \A i \in 1..Len(gen.tmp) : 0 <= gen.tmp[i] /\ gen.tmp[i] <= One

\* one pixel pushed below 0 and another above 1 before the clamp, and a zero gradient
C3_Witness ==
    /\ gen.called
    /\ \E i \in 1..Len(gen.tmp) :
          gen.grad[i] < 0 /\ gen.img[gen.rand_idx[i]] - gen.eps < 0 /\ gen.tmp[i] = 0
    /\ \E i \in 1..Len(gen.tmp) :
          gen.grad[i] > 0 /\ gen.img[gen.rand_idx[i]] + gen.eps > One /\ gen.tmp[i] = One

\* C4: with epsilon = 0 the returned images are the reordered originals, exactly.
C4_ZeroEpsIdentity ==
    (gen.called /\ gen.eps = 0) =>
        \A i \in 1..Len(gen.img) : gen.tmp[i] = gen.img[gen.rand_idx[i]]

\* epsilon 0, a swapped batch of two different images, gradients of both signs
C4_Witness ==
    /\ gen.called /\ gen.eps = 0
    /\ gen.rand_idx = <<2, 1>>
    /\ gen.img[1] # gen.img[2]
    /\ gen.grad[1] > 0 /\ gen.grad[2] < 0
    /\ gen.tmp = <<gen.img[2], gen.img[1]>>

C1_MeanPercentReturned ==
    (ac.status = "returned" /\ ac.nbatches > 0) =>
        /\ ac.result = MeanPercent(ac)
        /\ IsFinite(ac.result)
        /\ 0 <= ac.result[1] /\ ac.result[1] <= 100 * ac.result[2]

\* C5: on a dataset of no batches accuracy ends in an error, and no call of
\* accuracy returns a non-finite value.
C5_NeverNonFinite ==
    /\ (ac.status \in {"returned", "raised"} /\ ac.nbatches = 0) => ac.status = "raised"
    /\ ac.status = "returned" => IsFinite(ac.result)

\* ---- training_loop, under Spec

\* C6: a call with n_epoch = E over B batches makes i * B + j optimizer steps by
\* the time it is at batch j of pass i, has then appended i lines to its own log
\* and none to the other, never aborts, and has made E * B steps and written E
\* lines when it returns.
C6_StepsAndLines ==
    /\ tl.status \in {"running", "returned"} =>
          /\ LogOf(tl.adv) - tl.log_start = tl.i
          /\ LogOf(~tl.adv) = tl.other_start
          /\ tl.steps = tl.i * tl.nbatches + tl.j
          /\ tl.i <= tl.n_epoch /\ tl.j <= tl.nbatches
    /\ tl.status = "returned" =>
          /\ tl.steps = tl.n_epoch * tl.nbatches
          /\ LogOf(tl.adv) - tl.log_start = tl.n_epoch
    /\ pc = "error" => tl.status = "none"

\* an adversarial call of two passes over two batches has returned
C6_Witness ==
    /\ tl.status = "returned" /\ tl.adv
    /\ tl.n_epoch = 2 /\ tl.nbatches = 2
    /\ tl.steps = 4
    /\ adv_train_log - tl.log_start = 2

\* C7: parameter values change only in an optimizer step of training_loop, and
\* only those of the classifier being trained; generate_image_adversary and
\* accuracy, clean or under attack, leave every parameter value as it was.
C7_OnlyStepWrites ==
    [][params' # params =>
          /\ pc = "train" /\ pc' = "train"
          /\ tl'.steps = tl.steps + 1
          /\ \A n \in Nets \ {tl.network} : params'[n] = params[n]]_vars

\* an attack-mode evaluation of two batches, so two generator calls, has run on
\* weights that no training has touched, and has left gradients behind
C7_Witness ==
    /\ calls = 1
    /\ ac.status = "returned" /\ ac.attack /\ ac.k = 2
    /\ pgrad[ac.model].gen = 2
    /\ params = [n \in Nets |-> 25]

\* C8: the gradients an optimizer step uses are those of one backward pass, the
\* training loss of its own batch; none comes from a generator call.
C8_StepSeesOwnGradients ==
    tl.steps > 0 => tl.step_grad = [gen |-> 0, train |-> 1]

\* adversarial training of the global model after an attack-mode evaluation in an
\* earlier call and one in the pass before: a step has been taken in pass 2
C8_Witness ==
    /\ calls = 2
    /\ tl.status = "running" /\ tl.adv /\ tl.network = "model"
    /\ tl.i = 1 /\ tl.j = 1
    /\ tl.step_grad = [gen |-> 0, train |-> 1]

\* C9: the value training_loop logs after a pass is the accuracy of the
\* classifier it was given as network, with the attack flag equal to adv, and
\* the line goes to the log of that mode.
C9_LogsNetworkAccuracy ==
    (tl.status = "running" /\ ac.status = "returned" /\ ac.caller = "train") =>
        /\ ac.model = tl.network
        /\ ac.attack = tl.adv
        /\ ac.result = MeanPercent(ac)
        /\ LogOf(tl.adv) - tl.log_start = tl.i

=============================================================================
